---- MODULE Spec2Model ----
(***************************************************************************)
(* Combo generation of the tricking API: the service operations            *)
(* GenerateComboWithFilters / GenerateSimpleCombo, the weighted sampler    *)
(* selectTricksWeighted, the flow-aware sampler selectTricksWithFlow with  *)
(* its helpers, and the random generator shared by concurrent requests.    *)
(* Go slices are sequences; Go's 0-based index k is position k + 1 here.   *)
(***************************************************************************)
EXTENDS Integers, Sequences, FiniteSets

\* ---------------------------------------------------------------- bounds
MaxPool == 3
MaxWeight == 2
MaxStance == 2
MaxRng == 3
NumReq == 2
MaxCategory == 2

\* A nil *int (TakeoffStanceID, LandingStanceID); stance ids start at 1.
Nil == 0

Weights == (-1)..MaxWeight
StanceIDs == 1..MaxStance
OptStance == {Nil} \cup StanceIDs
Sizes == (-1)..(MaxPool + 1)

\* Primary keys are distinct and are not slice positions.
TrickID(k) == 2 * k + 1

\* A trick's name is a column of its row, distinct per row here.
TrickName(k) == <<"name", k>>

Trick(k, w, to, ld) ==
  [ID |-> TrickID(k), Name |-> TrickName(k), Weight |-> w,
   TakeoffStanceID |-> to, LandingStanceID |-> ld]

\* Rows without stances, any weights: what the repository returns to the
\* service operations, whose sampler reads no stance field.
WeightPools ==
  UNION {{[k \in 1..n |-> Trick(k, f[k], Nil, Nil)] : f \in [1..n -> Weights]} :
         n \in 0..MaxPool}

\* Rows with any takeoff stances and one landing stance (set or unset) shared
\* by all rows; the weight of row k is k - 1 (0, 1, 2, ...).
StancePools ==
  UNION {{[k \in 1..n |-> Trick(k, k - 1, f[k], ld)] :
          f \in [1..n -> OptStance], ld \in OptStance} :
         n \in 0..MaxPool}

Pools == WeightPools \cup StancePools

\* ---------------------------------------------------------------- helpers
\* mutant of EffWeight: the floor of 1 left out
EffWeightNoFloor(t) == t.Weight

\* mutant of EffWeight: the floor written as 0
EffWeightFloorZero(t) == IF t.Weight < 0 THEN 0 ELSE t.Weight

\* weight := int64(trick.Weight); if weight < 1 { weight = 1 }
EffWeight(t) == IF t.Weight < 1 THEN 1 ELSE t.Weight

\* cumulative after the first k elements of the range loop
RECURSIVE Cumulative(_, _)
Cumulative(tricks, k) ==
  IF k = 0 THEN 0 ELSE Cumulative(tricks, k - 1) + EffWeight(tricks[k])

TotalWeight(tricks) == Cumulative(tricks, Len(tricks))

\* rng.Int63n(n): any value of [0, n); it panics for n <= 0
Int63n(n) == 0..(n - 1)

\* mutant of Crossed: the comparison written cumulative >= target
CrossedAtLeast(tricks, target) ==
  {k \in 1..Len(tricks) : Cumulative(tricks, k) >= target}

\* the positions at which the search loop's test cumulative > target holds
Crossed(tricks, target) == {k \in 1..Len(tricks) : Cumulative(tricks, k) > target}

\* mutant of LeastOf: the search loop without its break
GreatestOf(S) == CHOOSE k \in S : \A j \in S : k >= j

\* the first position at which a range loop's test holds (break)
LeastOf(S) == CHOOSE k \in S : \A j \in S : k <= j

\* the search loop of selectTricksWeighted; selectedIdx keeps its initial 0
\* (position 1) when no cumulative sum exceeds target
SelectIdx(available, target) ==
  IF Crossed(available, target) = {} THEN 1 ELSE LeastOf(Crossed(available, target))

\* mutant of SwapRemove: the slice is shrunk without the swap
TruncateOnly(available, idx) == SubSeq(available, 1, Len(available) - 1)

\* available[selectedIdx] = available[len-1]; available = available[:len-1]
SwapRemove(available, idx) ==
  [k \in 1..(Len(available) - 1) |->
     IF k = idx THEN available[Len(available)] ELSE available[k]]

\* mutant of pickWeightedRandom: the comparison written cumulative >= target
pickWeightedRandomAtLeast(tricks, target) ==
  IF Len(tricks) = 1 THEN tricks[1]
  ELSE IF CrossedAtLeast(tricks, target) = {} THEN tricks[Len(tricks)]
  ELSE tricks[LeastOf(CrossedAtLeast(tricks, target))]

\* pickWeightedRandom once target is drawn: the one-element shortcut, the
\* search loop, and the last-element fallback
pickWeightedRandom(tricks, target) ==
  IF Len(tricks) = 1 THEN tricks[1]
  ELSE IF Crossed(tricks, target) = {} THEN tricks[Len(tricks)]
  ELSE tricks[LeastOf(Crossed(tricks, target))]

\* the targets pickWeightedRandom can draw; a one-element list returns before
\* the generator is used (one outcome, written as target 0)
PickTargets(tricks) == IF Len(tricks) = 1 THEN {0} ELSE Int63n(TotalWeight(tricks))

\* mutant of Compatible: a trick without takeoff stance is not accepted
CompatibleOnlyEqual(t, landing) == t.TakeoffStanceID = landing

\* t.TakeoffStanceID == nil || *t.TakeoffStanceID == *landingStanceID
Compatible(t, landing) == t.TakeoffStanceID = Nil \/ t.TakeoffStanceID = landing

filterCompatibleTricks(tricks, landingStanceID) ==
  IF landingStanceID = Nil THEN tricks
  ELSE SelectSeq(tricks, LAMBDA t : Compatible(t, landingStanceID))

FirstWithID(tricks, id) == {k \in 1..Len(tricks) : tricks[k].ID = id}

\* mutant of removeTrick: the last element is dropped, whatever the id
removeLastTrick(tricks, id) == SubSeq(tricks, 1, Len(tricks) - 1)

\* removeTrick: the slice without the first element that has the id
removeTrick(tricks, id) ==
  IF FirstWithID(tricks, id) = {} THEN tricks
  ELSE LET i == LeastOf(FirstWithID(tricks, id))
       IN  SubSeq(tricks, 1, i - 1) \o SubSeq(tricks, i + 1, Len(tricks))

\* mutant of FlowDrawList: no fallback to the remaining pool
FlowDrawListNoFallback(available, landingStanceID) ==
  filterCompatibleTricks(available, landingStanceID)

\* mutant of FlowDrawList: the compatible tricks are not preferred
FlowDrawListNoPreference(available, landingStanceID) == available

\* the list a draw of selectTricksWithFlow after the first is taken from
FlowDrawList(available, landingStanceID) ==
  IF Len(filterCompatibleTricks(available, landingStanceID)) > 0
  THEN filterCompatibleTricks(available, landingStanceID)
  ELSE available

\* mutant of AppendSelected: the pick is put in front
PrependSelected(selected, trick) == <<trick>> \o selected

\* selected = append(selected, trick)
AppendSelected(selected, trick) == Append(selected, trick)

\* the loop of selectTricksWeighted as a function of the draws: the
\* sequences it can end with from a working copy, the picks made so far and
\* the iterations left, over all targets Int63n can return
RECURSIVE SelectRuns(_, _, _)
SelectRuns(available, selected, left) ==
  IF left <= 0 \/ Len(available) = 0 THEN {selected}
  ELSE UNION {SelectRuns(SwapRemove(available, idx),
                         AppendSelected(selected, available[idx]), left - 1) :
                idx \in {SelectIdx(available, target) :
                           target \in Int63n(TotalWeight(available))}}

\* the sequences selectTricksWeighted(candidates, count) can return
SelectOutputs(candidates, count) == SelectRuns(candidates, <<>>, count)

\* the picks of selectTricksWithFlow as a function of the draws: the first
\* pick from the working copy, the later ones from the compatible tricks or,
\* when there are none, from the working copy
RECURSIVE FlowRuns(_, _, _)
FlowRuns(available, selected, left) ==
  IF left <= 0 \/ Len(available) = 0 THEN {selected}
  ELSE LET list == IF Len(selected) = 0 THEN available
                   ELSE FlowDrawList(available,
                                     selected[Len(selected)].LandingStanceID)
       IN UNION {FlowRuns(removeTrick(available, nextTrick.ID),
                          AppendSelected(selected, nextTrick), left - 1) :
                   nextTrick \in {pickWeightedRandom(list, target) :
                                    target \in PickTargets(list)}}

\* the sequences selectTricksWithFlow(candidates, count) can return, for
\* count >= 0
FlowOutputs(candidates, count) ==
  IF Len(candidates) = 0 \/ count = 0 THEN {<<>>}
  ELSE FlowRuns(candidates, <<>>, count)

ToSimpleResponse(t) == [ID |-> t.ID, Name |-> t.Name]

\* mutant of buildComboResponse: the entries in reverse order
buildComboResponseReversed(tricks) ==
  [Tricks |-> [k \in 1..Len(tricks) |->
                 ToSimpleResponse(tricks[Len(tricks) + 1 - k])]]

buildComboResponse(tricks) ==
  [Tricks |-> [k \in 1..Len(tricks) |-> ToSimpleResponse(tricks[k])]]

\* ---------------------------------------------------------------- errors
NoErr == [kind |-> "nil", need |-> 0, have |-> 0]
ErrInvalidComboSize == [kind |-> "ErrInvalidComboSize", need |-> 0, have |-> 0]
ErrInsufficientTricks(size, n) ==
  [kind |-> "ErrInsufficientTricks", need |-> size, have |-> n]
ErrFetch == [kind |-> "fetch", need |-> 0, have |-> 0]
Panic == [kind |-> "panic", need |-> 0, have |-> 0]

\* mutant of InvalidSize: the bound is off by one
InvalidSizeBelowZero(size) == size < 0

\* if size < 1 { return nil, ErrInvalidComboSize }
InvalidSize(size) == size < 1

\* mutant of Insufficient: the bound is off by one
InsufficientOffByOne(n, size) == n + 1 < size

\* mutant of Insufficient: the check is left out
InsufficientNever(n, size) == FALSE

\* if len(candidateTricks) < req.Size { return nil, ErrInsufficientTricks... }
Insufficient(n, size) == n < size

\* mutant of CallerSees: available := candidates, one backing array for both
CallerSeesShared(candidates, stored) == stored

\* available := make(...); copy(available, candidates): the working copy has
\* a backing array of its own, so what the caller's slice holds after a store
\* through available is what it held before, not the array stored into
CallerSees(candidates, stored) == candidates

\* available[selectedIdx] = available[len(available)-1], as a store into an
\* array arr whose first Len(available) elements are available
StoreSwap(arr, available, idx) ==
  [arr EXCEPT ![idx] = available[Len(available)]]

\* append(tricks[:i], tricks[i+1:]...) in removeTrick, as stores into an
\* array arr whose first Len(tricks) elements are tricks: the elements after
\* the one with the given id move one place down, the last place keeps its
\* element
StoreShift(arr, tricks, id) ==
  IF FirstWithID(tricks, id) = {} THEN arr
  ELSE LET idx == LeastOf(FirstWithID(tricks, id)) IN
       [k \in 1..Len(arr) |->
          IF k >= idx /\ k < Len(tricks) THEN tricks[k + 1] ELSE arr[k]]

\* the generator state after one more call of Int63n; the values drawn are
\* chosen by the caller of Int63n above, the state only counts the calls
NextRng(x) == (x + 1) % MaxRng

\* ------------------------------------------------------- repository query
CategoryIDs == 1..MaxCategory

\* a row of trick_data.tricks as the query reads it: flip_id is NULL (Nil) or
\* a category id; row 1 has no difficulty (NULL), row k > 1 has difficulty
\* k - 1; rows 1 and 2 have weight 1, row k > 2 has weight k - 1
FilterRow(k, flip) ==
  [ID |-> TrickID(k), Name |-> TrickName(k),
   Weight |-> IF k = 1 THEN 1 ELSE k - 1,
   TakeoffStanceID |-> Nil, LandingStanceID |-> Nil,
   FlipID |-> flip, Difficulty |-> k - 1]

FilterTables ==
  UNION {{[k \in 1..n |-> FilterRow(k, f[k])] :
            f \in [1..n -> {Nil} \cup CategoryIDs]} :
         n \in 0..MaxPool}

\* the ascending list of a finite set of integers
AscList(S) ==
  CHOOSE s \in [1..Cardinality(S) -> S] :
    \A a, b \in 1..Cardinality(S) : a < b => s[a] < s[b]

\* ComboGenerateRequest without Size: the filters of a request
ComboGenerateRequest(maxDifficulty, categoryIDs, trickIDs, excludeTrickIDs) ==
  [MaxDifficulty |-> maxDifficulty, ExcludeCategoryIDs |-> categoryIDs,
   TrickIDs |-> trickIDs, ExcludeTrickIDs |-> excludeTrickIDs]

AllTrickIDs == {TrickID(k) : k \in 1..MaxPool}

AtMost(S, n) == {T \in SUBSET S : Cardinality(T) <= n}

\* requests with a list of category ids, alone or, when it has one id,
\* together with one trick id to exclude
CategoryRequests ==
  {ComboGenerateRequest(Nil, AscList(C), <<>>, <<>>) :
     C \in (SUBSET CategoryIDs) \ {{}}}
  \cup {ComboGenerateRequest(Nil, <<c>>, <<>>, <<x>>) :
          c \in CategoryIDs, x \in AllTrickIDs}

\* requests without category ids: no filter or a difficulty ceiling, or a
\* list of at most two trick ids to exclude, or one trick id to include
PlainRequests ==
  {ComboGenerateRequest(d, <<>>, <<>>, <<>>) : d \in {Nil} \cup 1..(MaxPool - 1)}
  \cup {ComboGenerateRequest(Nil, <<>>, <<>>, AscList(X)) :
          X \in AtMost(AllTrickIDs, 2)}
  \cup {ComboGenerateRequest(Nil, <<>>, <<x>>, <<>>) : x \in AllTrickIDs}

\* the tables a request is served from: any table for a request with category
\* ids, the tables whose rows all have the same flip_id for the others
FilterInputs ==
  {<<tbl, r>> : tbl \in FilterTables, r \in CategoryRequests}
  \cup {<<tbl, r>> :
          tbl \in {t \in FilterTables :
                     \A k \in 1..Len(t) : t[k].FlipID = t[1].FlipID},
          r \in PlainRequests}

\* filters := repository.TrickFilters{...} in GenerateComboWithFilters
TrickFilters(r) ==
  [MinDifficulty |-> Nil, MaxDifficulty |-> r.MaxDifficulty,
   CategoryIDs |-> r.ExcludeCategoryIDs,
   ExcludeTrickIDs |-> r.ExcludeTrickIDs, Limit |-> Nil]

ElementsOf(list) == {list[k] : k \in 1..Len(list)}

\* mutant of MatchesFilters: the condition on id left out
MatchesFiltersAnyID(t, filters) ==
  /\ filters.MinDifficulty # Nil =>
       t.Difficulty # Nil /\ t.Difficulty >= filters.MinDifficulty
  /\ filters.MaxDifficulty # Nil =>
       t.Difficulty # Nil /\ t.Difficulty <= filters.MaxDifficulty
  /\ Len(filters.CategoryIDs) > 0 =>
       t.FlipID # Nil /\ t.FlipID \in ElementsOf(filters.CategoryIDs)

\* the WHERE clause FindByFilters builds: a comparison with NULL is not true
MatchesFilters(t, filters) ==
  /\ filters.MinDifficulty # Nil =>
       t.Difficulty # Nil /\ t.Difficulty >= filters.MinDifficulty
  /\ filters.MaxDifficulty # Nil =>
       t.Difficulty # Nil /\ t.Difficulty <= filters.MaxDifficulty
  /\ Len(filters.CategoryIDs) > 0 =>
       t.FlipID # Nil /\ t.FlipID \in ElementsOf(filters.CategoryIDs)
  /\ Len(filters.ExcludeTrickIDs) > 0 =>
       t.ID \notin ElementsOf(filters.ExcludeTrickIDs)

\* the results FindByFilters can return for the rows tbl: the matching rows,
\* ORDER BY weight DESC, RANDOM() (rows of equal weight in any order), LIMIT
\* when set
FindByFilters(tbl, filters) ==
  LET M == {k \in 1..Len(tbl) : MatchesFilters(tbl[k], filters)}
      ordered == {s \in [1..Cardinality(M) -> M] :
                    /\ \A a, b \in 1..Cardinality(M) : a # b => s[a] # s[b]
                    /\ \A a, b \in 1..Cardinality(M) :
                         a < b => tbl[s[a]].Weight >= tbl[s[b]].Weight}
      limited(s) == IF filters.Limit = Nil \/ filters.Limit >= Len(s) THEN s
                    ELSE SubSeq(s, 1, filters.Limit)
  IN {limited([k \in 1..Cardinality(M) |-> tbl[s[k]]]) : s \in ordered}

\* ------------------------------------------------------------ HTTP layer
StatusOK == 200
StatusBadRequest == 400
StatusUnauthorized == 401
StatusForbidden == 403
StatusNotFound == 404
StatusUnprocessableEntity == 422
StatusInternalServerError == 500

\* binding:"required,min=1,max=10" on Size
BindMinSize == 1
BindMaxSize == 10

\* "size is required and must be between 1 and 20"; minimum(1) maximum(20)
DocMinSize == 1
DocMaxSize == 20

\* cfg.InternalAPIKey, and the values of the internal-api-key header: missing,
\* the configured key, another key
ConfiguredKey == "key"
KeyHeaders == {"", ConfiguredKey, "other"}

\* the size query parameter: absent, not a number, or an integer
NoSize == [present |-> FALSE, numeric |-> FALSE, value |-> 0]
SizeParams ==
  {NoSize, [present |-> TRUE, numeric |-> FALSE, value |-> 0]}
    \cup {[present |-> TRUE, numeric |-> TRUE, value |-> v] :
            v \in (-1)..(DocMaxSize + 1)}

\* the form mapping of ShouldBindQuery: an absent parameter leaves Size 0
BoundSize(q) == IF q.present THEN q.value ELSE 0

\* ShouldBindQuery returns an error: the parameter is not an integer, or the
\* validator rejects the value (required: not the zero value; min; max)
SizeBindFails(q) ==
  \/ q.present /\ ~q.numeric
  \/ BoundSize(q) = 0
  \/ BoundSize(q) < BindMinSize
  \/ BoundSize(q) > BindMaxSize

\* the :userId path parameter and the user-id header as sent, and uuid.Parse:
\* "zz" is no UUID, "u1" and "U1" are two spellings of the same UUID
UserParams == {"zz", "u1", "U1", "u2"}
UserHeaders == {"", "u1", "u2"}
RoleHeaders == {"", "user", "admin"}
ParsesAsUUID(text) == text # "zz"

\* the UUID that uuid.Parse returns for a text that parses
UUIDOf(text) == IF text = "U1" THEN "u1" ELSE text

\* NewRouter, statement by statement
RouterProgram ==
  << [stmt |-> "Group", group |-> "v1", arg |-> "engine"],
     [stmt |-> "GET", group |-> "v1", arg |-> "/api/v1/tricks",
      handler |-> "ListTricks"],
     [stmt |-> "Group", group |-> "trick", arg |-> "v1"],
     [stmt |-> "GET", group |-> "trick", arg |-> "/api/v1/trick/:id",
      handler |-> "GetTrickSimple"],
     [stmt |-> "GET", group |-> "trick", arg |-> "/api/v1/trick/detail/:id",
      handler |-> "GetTrickFullDetails"],
     [stmt |-> "Group", group |-> "combos", arg |-> "v1"],
     [stmt |-> "GET", group |-> "combos", arg |-> "/api/v1/combos/generate",
      handler |-> "GenerateComboWithFilters"],
     [stmt |-> "GET", group |-> "combos",
      arg |-> "/api/v1/combos/generate/simple",
      handler |-> "GenerateSimpleCombo"],
     [stmt |-> "Group", group |-> "categories", arg |-> "v1"],
     [stmt |-> "GET", group |-> "categories", arg |-> "/api/v1/categories",
      handler |-> "ListCategories"],
     [stmt |-> "Use", group |-> "v1", arg |-> "ExtractUserContext"],
     [stmt |-> "Use", group |-> "v1", arg |-> "InternalAPIKey"],
     [stmt |-> "Group", group |-> "users", arg |-> "v1"],
     [stmt |-> "GET", group |-> "users",
      arg |-> "/api/v1/users/:userId/combos", handler |-> "GetUserCombos"],
     [stmt |-> "GET", group |-> "engine", arg |-> "/health",
      handler |-> "health"] >>

RouterGroups == {"engine", "v1", "trick", "combos", "categories", "users"}

\* gin's RouterGroup after the first k statements: Group copies the parent's
\* handlers into the new group, Use appends to the group's handlers, and GET
\* stores the group's handlers of that moment, followed by the route's
\* handler, as the route's chain
RECURSIVE Register(_, _)
Register(program, k) ==
  IF k = 0 THEN [chain |-> [g \in RouterGroups |-> <<>>], routes |-> {}]
  ELSE LET prev == Register(program, k - 1)
           st == program[k]
       IN CASE st.stmt = "Group" ->
                 [prev EXCEPT !.chain[st.group] = prev.chain[st.arg]]
            [] st.stmt = "Use" ->
                 [prev EXCEPT !.chain[st.group] = Append(@, st.arg)]
            [] st.stmt = "GET" ->
                 [prev EXCEPT
                    !.routes = @ \cup {[route |-> st.arg, group |-> st.group,
                                        chain |-> prev.chain[st.group],
                                        handler |-> st.handler]}]

\* the routes of the engine that NewRouter returns
RouteTable == Register(RouterProgram, Len(RouterProgram)).routes

V1Routes == {e.route : e \in {x \in RouteTable : x.group # "engine"}}
ComboRoutes == {"/api/v1/combos/generate", "/api/v1/combos/generate/simple"}
UserRoutes == {"/api/v1/users/:userId/combos"}
PlainRoutes == {e.route : e \in RouteTable} \ (ComboRoutes \cup UserRoutes)

HttpRequest(route, key, size, bad, userId, userHeader, roleHeader) ==
  [route |-> route, key |-> key, size |-> size, otherParamsBad |-> bad,
   userId |-> userId, userHeader |-> userHeader, roleHeader |-> roleHeader]

\* the requests a client can send: any route (one path is not registered),
\* any key header, and the parameters and headers the route's handler reads;
\* otherParamsBad: a filter parameter of /combos/generate does not bind
HttpRequests ==
  {HttpRequest(r, k, NoSize, FALSE, "", "", "") :
     r \in PlainRoutes \cup {"/api/v1/nothing"}, k \in KeyHeaders}
  \cup {HttpRequest("/api/v1/combos/generate", k, q, bad, "", "", "") :
          k \in KeyHeaders, q \in SizeParams, bad \in BOOLEAN}
  \cup {HttpRequest("/api/v1/combos/generate/simple", k, q, FALSE, "", "", "") :
          k \in KeyHeaders, q \in SizeParams}
  \cup {HttpRequest(r, k, NoSize, FALSE, p, u, ro) :
          r \in UserRoutes, k \in KeyHeaders, p \in UserParams,
          u \in UserHeaders, ro \in RoleHeaders}

\* rows of weight 1, one pool per length
UnitPools == {[k \in 1..n |-> Trick(k, 1, Nil, Nil)] : n \in 0..MaxPool}

\* mutant of ComboStatus: too few tricks answered as a malformed request
ComboStatusInsufficientAsBadRequest(e) ==
  IF e.kind = "nil" THEN StatusOK
  ELSE IF e.kind = "ErrInsufficientTricks" THEN StatusBadRequest
  ELSE IF e.kind = "ErrInvalidComboSize" THEN StatusBadRequest
  ELSE StatusInternalServerError

\* the status both combo handlers write for the error the service returned
ComboStatus(e) ==
  IF e.kind = "nil" THEN StatusOK
  ELSE IF e.kind = "ErrInsufficientTricks" THEN StatusUnprocessableEntity
  ELSE IF e.kind = "ErrInvalidComboSize" THEN StatusBadRequest
  ELSE StatusInternalServerError

\* the ComboGenerateRequest of a request without filters
NoFilters ==
  [MaxDifficulty |-> Nil, ExcludeCategoryIDs |-> <<>>, TrickIDs |-> <<>>,
   ExcludeTrickIDs |-> <<>>]

NoHttpRequest == HttpRequest("", "", NoSize, FALSE, "", "", "")
NoContext == [user_id |-> <<>>, user_role |-> <<>>]

\* ---------------------------------------------------------------- state
VARIABLES
  table,        \* the rows the repository holds when the request arrives
  candidates,   \* the slice handed to the sampler
  pc,           \* "idle", "weighted", "flowFirst", "flow", "done"
  op,           \* the operation called
  count,        \* the requested size
  available,    \* the sampler's working copy
  selected,     \* the sampler's output so far
  i,            \* the loop counter of the sampler
  picks,        \* history: the ID chosen by each draw, in draw order
  fellBack,     \* history: some draw of selectTricksWithFlow used the fallback
  err,          \* the error returned
  combo,        \* the response returned: <<>> is nil, <<r>> points to r
  rng,          \* the state of the generator ComboService.rng
  rpc,          \* per concurrent request: "idle", "loop", "inRng", "done"
  rlocal,       \* per concurrent request: the generator state it has read
  rleft,        \* per concurrent request: iterations of the draw loop left
  req,          \* the ComboGenerateRequest handed to GenerateComboWithFilters
  hpc,          \* HTTP request: "idle", "chain", "service", "done"
  hreq,         \* HTTP request: route, headers, path and query parameters
  hchain,       \* HTTP request: the handler chain of the matched route
  hpos,         \* HTTP request: position in the chain (c.Next)
  hctx,         \* HTTP request: the keys set on the gin context
  hreached,     \* HTTP request: the route's handler has been entered
  hstatus       \* HTTP request: the status written, 0 while none

samplerVars ==
  <<table, candidates, pc, op, count, available, selected, i, picks, fellBack,
    err, combo>>
rngVars == <<rng, rpc, rlocal, rleft>>
httpVars == <<hpc, hreq, hchain, hpos, hctx, hreached, hstatus>>
vars == <<samplerVars, rngVars, req, httpVars>>

Requests == 1..NumReq

Init ==
  /\ table = <<>>
  /\ candidates = <<>>
  /\ pc = "idle"
  /\ op = "none"
  /\ count = 0
  /\ available = <<>>
  /\ selected = <<>>
  /\ i = 0
  /\ picks = <<>>
  /\ fellBack = FALSE
  /\ err = NoErr
  /\ combo = <<>>
  /\ rng = 0
  /\ rpc = [r \in Requests |-> "idle"]
  /\ rlocal = [r \in Requests |-> 0]
  /\ rleft = [r \in Requests |-> 0]
  /\ req = NoFilters
  /\ hpc = "idle"
  /\ hreq = NoHttpRequest
  /\ hchain = <<>>
  /\ hpos = 0
  /\ hctx = NoContext
  /\ hreached = FALSE
  /\ hstatus = 0

\* return nil, e
Fail(e) ==
  /\ pc' = "done"
  /\ err' = e
  /\ UNCHANGED <<candidates, available, selected, i, picks, fellBack, combo>>

\* mutant of GenerateFrom: the repository is queried before the size check
GenerateFromFetchFirst(name, size, tbl, rows, fetched) ==
  /\ op' = name
  /\ count' = size
  /\ table' = tbl
  /\ IF ~fetched THEN Fail(ErrFetch)
     ELSE IF InvalidSize(size)
       THEN /\ pc' = "done"
            /\ err' = ErrInvalidComboSize
            /\ candidates' = rows
            /\ UNCHANGED <<available, selected, i, picks, fellBack, combo>>
     ELSE IF Insufficient(Len(rows), size)
       THEN /\ pc' = "done"
            /\ err' = ErrInsufficientTricks(size, Len(rows))
            /\ candidates' = rows
            /\ UNCHANGED <<available, selected, i, picks, fellBack, combo>>
     ELSE /\ pc' = "weighted"
          /\ candidates' = rows
          /\ available' = rows
          /\ selected' = <<>>
          /\ i' = 0
          /\ UNCHANGED <<picks, fellBack, err, combo>>
  /\ UNCHANGED rngVars

\* the body shared by GenerateComboWithFilters (GenerateCombo in the earlier
\* revision) and GenerateSimpleCombo, up to the call of selectTricksWeighted;
\* tbl is what the repository holds, rows what the query returns, fetched
\* whether the query succeeds
GenerateFrom(name, size, tbl, rows, fetched) ==
  /\ op' = name
  /\ count' = size
  /\ table' = tbl
  /\ IF InvalidSize(size) THEN Fail(ErrInvalidComboSize)
     ELSE IF ~fetched THEN Fail(ErrFetch)
     ELSE IF Insufficient(Len(rows), size)
       THEN /\ pc' = "done"
            /\ err' = ErrInsufficientTricks(size, Len(rows))
            /\ candidates' = rows
            /\ UNCHANGED <<available, selected, i, picks, fellBack, combo>>
     ELSE /\ pc' = "weighted"
          /\ candidates' = rows
          /\ available' = rows
          /\ selected' = <<>>
          /\ i' = 0
          /\ UNCHANGED <<picks, fellBack, err, combo>>
  /\ UNCHANGED rngVars

\* a call whose query returns every row the repository holds, in table order
Generate(name, size, rows, fetched) ==
  GenerateFrom(name, size, rows, rows, fetched)

GenerateComboWithFilters ==
  /\ pc = "idle"
  /\ \E size \in Sizes, rows \in WeightPools, fetched \in BOOLEAN :
       Generate("GenerateComboWithFilters", size, rows, fetched)
  /\ UNCHANGED <<req, httpVars>>

GenerateSimpleCombo ==
  /\ pc = "idle"
  /\ \E size \in Sizes, rows \in WeightPools, fetched \in BOOLEAN :
       Generate("GenerateSimpleCombo", size, rows, fetched)
  /\ UNCHANGED <<req, httpVars>>

\* one iteration of the loop of selectTricksWeighted
WeightedDraw ==
  /\ pc = "weighted"
  /\ i < count /\ Len(available) > 0
  /\ IF TotalWeight(available) <= 0
     THEN /\ pc' = "done"
          /\ err' = Panic
          /\ UNCHANGED <<candidates, available, selected, i, picks, rng>>
     ELSE /\ \E target \in Int63n(TotalWeight(available)) :
               LET selectedIdx == SelectIdx(available, target) IN
               /\ selected' = AppendSelected(selected, available[selectedIdx])
               /\ picks' = Append(picks, available[selectedIdx].ID)
               /\ available' = SwapRemove(available, selectedIdx)
               /\ candidates' =
                    CallerSees(candidates,
                               StoreSwap(candidates, available, selectedIdx))
          /\ rng' = NextRng(rng)
          /\ i' = i + 1
          /\ UNCHANGED <<pc, err>>
  /\ UNCHANGED <<table, op, count, fellBack, combo>>
  /\ UNCHANGED <<rpc, rlocal, rleft>>
  /\ UNCHANGED <<req, httpVars>>

\* the loop of selectTricksWeighted ends; buildComboResponse; return
WeightedReturn ==
  /\ pc = "weighted"
  /\ ~(i < count /\ Len(available) > 0)
  /\ pc' = "done"
  /\ combo' = <<buildComboResponse(selected)>>
  /\ UNCHANGED <<table, candidates, op, count, available, selected, i, picks,
                 fellBack, err>>
  /\ UNCHANGED rngVars
  /\ UNCHANGED <<req, httpVars>>

\* selectTricksWithFlow up to its first pick: the early return, the two makes
\* (a negative capacity panics) and the copy
selectTricksWithFlow ==
  /\ pc = "idle"
  /\ \E rows \in Pools, size \in Sizes :
       /\ op' = "selectTricksWithFlow"
       /\ count' = size
       /\ table' = rows
       /\ candidates' = rows
       /\ IF Len(rows) = 0 \/ size = 0
          THEN /\ pc' = "done"
               /\ UNCHANGED <<available, selected, i, err>>
          ELSE IF size < 0
          THEN /\ pc' = "done"
               /\ err' = Panic
               /\ UNCHANGED <<available, selected, i>>
          ELSE /\ pc' = "flowFirst"
               /\ available' = rows
               /\ selected' = <<>>
               /\ i' = 0
               /\ UNCHANGED err
  /\ UNCHANGED <<picks, fellBack, combo>>
  /\ UNCHANGED rngVars
  /\ UNCHANGED <<req, httpVars>>

\* one pick of selectTricksWithFlow from list: pickWeightedRandom, append,
\* removeTrick
FlowPick(list) ==
  IF Len(list) # 1 /\ TotalWeight(list) <= 0
  THEN /\ pc' = "done"
       /\ err' = Panic
       /\ UNCHANGED <<candidates, available, selected, i, picks, rng>>
  ELSE /\ \E target \in PickTargets(list) :
            LET nextTrick == pickWeightedRandom(list, target) IN
            /\ selected' = AppendSelected(selected, nextTrick)
            /\ picks' = Append(picks, nextTrick.ID)
            /\ available' = removeTrick(available, nextTrick.ID)
            /\ candidates' =
                 CallerSees(candidates,
                            StoreShift(candidates, available, nextTrick.ID))
       /\ rng' = IF Len(list) = 1 THEN rng ELSE NextRng(rng)
       /\ pc' = "flow"
       /\ i' = i + 1
       /\ UNCHANGED err

\* first := s.pickWeightedRandom(available) ...
FlowFirstPick ==
  /\ pc = "flowFirst"
  /\ FlowPick(available)
  /\ UNCHANGED <<table, op, count, fellBack, combo>>
  /\ UNCHANGED <<rpc, rlocal, rleft>>
  /\ UNCHANGED <<req, httpVars>>

\* one iteration of the loop of selectTricksWithFlow
FlowDraw ==
  /\ pc = "flow"
  /\ i < count /\ Len(available) > 0
  /\ LET lastTrick == selected[i] IN
       /\ FlowPick(FlowDrawList(available, lastTrick.LandingStanceID))
       /\ fellBack' =
            (fellBack \/
             Len(filterCompatibleTricks(available, lastTrick.LandingStanceID)) = 0)
  /\ UNCHANGED <<table, op, count, combo>>
  /\ UNCHANGED <<rpc, rlocal, rleft>>
  /\ UNCHANGED <<req, httpVars>>

\* the loop of selectTricksWithFlow ends; return selected
FlowReturn ==
  /\ pc = "flow"
  /\ ~(i < count /\ Len(available) > 0)
  /\ pc' = "done"
  /\ UNCHANGED <<table, candidates, op, count, available, selected, i, picks,
                 fellBack, err, combo>>
  /\ UNCHANGED rngVars
  /\ UNCHANGED <<req, httpVars>>

Next ==
  \/ GenerateComboWithFilters
  \/ GenerateSimpleCombo
  \/ WeightedDraw
  \/ WeightedReturn
  \/ selectTricksWithFlow
  \/ FlowFirstPick
  \/ FlowDraw
  \/ FlowReturn

Spec == Init /\ [][Next]_vars

\* ------------------------------------------------- concurrent requests
\* main builds one ComboService, so one *rand.Rand, and the HTTP server runs
\* every request on its own goroutine; a request that passed its checks runs
\* the draw loop, each iteration calling s.rng.Int63n. The generator of
\* rand.New takes no lock: Int63n reads the generator state, then writes the
\* advanced state back.

\* a request enters the draw loop with its validated size
ReqStart(r) ==
  /\ rpc[r] = "idle"
  /\ \E n \in 1..MaxPool : rleft' = [rleft EXCEPT ![r] = n]
  /\ rpc' = [rpc EXCEPT ![r] = "loop"]
  /\ UNCHANGED <<rng, rlocal>>
  /\ UNCHANGED <<samplerVars, req, httpVars>>

\* s.rng.Int63n begins: the generator state is read
ReqRngRead(r) ==
  /\ rpc[r] = "loop"
  /\ rleft[r] > 0
  /\ rlocal' = [rlocal EXCEPT ![r] = rng]
  /\ rpc' = [rpc EXCEPT ![r] = "inRng"]
  /\ UNCHANGED <<rng, rleft>>
  /\ UNCHANGED <<samplerVars, req, httpVars>>

\* s.rng.Int63n ends: the advanced state is written back; when another
\* request wrote in between, the write races and any state may result
ReqRngWrite(r) ==
  /\ rpc[r] = "inRng"
  /\ IF rng = rlocal[r] THEN rng' = NextRng(rlocal[r])
     ELSE rng' \in 0..(MaxRng - 1)
  /\ rleft' = [rleft EXCEPT ![r] = rleft[r] - 1]
  /\ rpc' = [rpc EXCEPT ![r] = "loop"]
  /\ UNCHANGED rlocal
  /\ UNCHANGED <<samplerVars, req, httpVars>>

\* the draw loop ends and the request returns
ReqReturn(r) ==
  /\ rpc[r] = "loop"
  /\ rleft[r] = 0
  /\ rpc' = [rpc EXCEPT ![r] = "done"]
  /\ UNCHANGED <<rng, rlocal, rleft>>
  /\ UNCHANGED <<samplerVars, req, httpVars>>

NextRace ==
  \/ \E r \in Requests : ReqStart(r)
  \/ \E r \in Requests : ReqRngRead(r)
  \/ \E r \in Requests : ReqRngWrite(r)
  \/ \E r \in Requests : ReqReturn(r)

SpecRace == Init /\ [][NextRace]_vars

\* ------------------------------------------- the service with its query
\* GenerateComboWithFilters with the repository's query carried out on the
\* rows of the table
GenerateComboFiltered ==
  /\ pc = "idle"
  /\ \E in \in FilterInputs, size \in 1..MaxPool :
       /\ req' = in[2]
       /\ \E rows \in FindByFilters(in[1], TrickFilters(in[2])) :
            GenerateFrom("GenerateComboWithFilters", size, in[1], rows, TRUE)
  /\ UNCHANGED httpVars

NextFilter ==
  \/ GenerateComboFiltered
  \/ WeightedDraw
  \/ WeightedReturn

SpecFilter == Init /\ [][NextFilter]_vars

\* ------------------------------------------------------ one HTTP request
\* the engine matches the request's path and starts the route's chain; a
\* path without a route is answered 404
HttpArrive ==
  /\ hpc = "idle"
  /\ \E r \in HttpRequests :
       /\ hreq' = r
       /\ LET matched == {e \in RouteTable : e.route = r.route} IN
            IF matched = {}
            THEN /\ hstatus' = StatusNotFound
                 /\ hpc' = "done"
                 /\ UNCHANGED <<hchain, hpos>>
            ELSE /\ hchain' = LET e == CHOOSE e \in matched : TRUE
                              IN Append(e.chain, e.handler)
                 /\ hpos' = 1
                 /\ hpc' = "chain"
                 /\ UNCHANGED hstatus
  /\ UNCHANGED <<hctx, hreached>>
  /\ UNCHANGED <<samplerVars, rngVars, req>>

\* c.AbortWithStatusJSON(status, ...) / c.JSON(status, ...); return
Respond(status) ==
  /\ hstatus' = status
  /\ hpc' = "done"
  /\ UNCHANGED <<hreq, hchain, hpos>>

\* middleware.InternalAPIKey
InternalAPIKey ==
  /\ hpc = "chain"
  /\ hchain[hpos] = "InternalAPIKey"
  /\ IF hreq.key = "" \/ hreq.key # ConfiguredKey
     THEN Respond(StatusUnauthorized)
     ELSE /\ hpos' = hpos + 1
          /\ UNCHANGED <<hpc, hreq, hchain, hstatus>>
  /\ UNCHANGED <<hctx, hreached>>
  /\ UNCHANGED <<samplerVars, rngVars, req>>

\* middleware.ExtractUserContext
ExtractUserContext ==
  /\ hpc = "chain"
  /\ hchain[hpos] = "ExtractUserContext"
  /\ hctx' = [user_id |-> IF hreq.userHeader # "" THEN <<hreq.userHeader>>
                          ELSE hctx.user_id,
              user_role |-> IF hreq.roleHeader # "" THEN <<hreq.roleHeader>>
                            ELSE hctx.user_role]
  /\ hpos' = hpos + 1
  /\ UNCHANGED <<hpc, hreq, hchain, hreached, hstatus>>
  /\ UNCHANGED <<samplerVars, rngVars, req>>

\* a combo handler up to the return of its service call: the binding error
\* is answered 400, otherwise the service operation starts
HandleCombo(name) ==
  /\ hreached' = TRUE
  /\ IF SizeBindFails(hreq.size) \/ hreq.otherParamsBad
     THEN /\ Respond(StatusBadRequest)
          /\ UNCHANGED <<samplerVars, rngVars>>
     ELSE /\ hpc' = "service"
          /\ \E rows \in UnitPools, fetched \in BOOLEAN :
               Generate(name, BoundSize(hreq.size), rows, fetched)
          /\ UNCHANGED <<hreq, hchain, hpos, hstatus>>
  /\ UNCHANGED <<hctx, req>>

\* ComboHandler.GenerateCombo, registered as GenerateComboWithFilters
HandleGenerateCombo ==
  /\ hpc = "chain"
  /\ hchain[hpos] = "GenerateComboWithFilters"
  /\ HandleCombo("GenerateComboWithFilters")

\* ComboHandler.GenerateSimpleCombo
HandleGenerateSimpleCombo ==
  /\ hpc = "chain"
  /\ hchain[hpos] = "GenerateSimpleCombo"
  /\ HandleCombo("GenerateSimpleCombo")

\* a combo handler after its service call has returned
ComboRespond ==
  /\ hpc = "service"
  /\ pc = "done"
  /\ Respond(ComboStatus(err))
  /\ UNCHANGED <<hctx, hreached>>
  /\ UNCHANGED <<samplerVars, rngVars, req>>

\* UserHandler.GetUserCombos; found: the user service returns without error
HandleGetUserCombos ==
  /\ hpc = "chain"
  /\ hchain[hpos] = "GetUserCombos"
  /\ hreached' = TRUE
  /\ IF ~ParsesAsUUID(hreq.userId) THEN Respond(StatusBadRequest)
     ELSE IF /\ hctx.user_id # <<>>
             /\ hctx.user_id # <<"">>
             /\ hctx.user_id # <<hreq.userId>>
             /\ hctx.user_role # <<"admin">>
       THEN Respond(StatusForbidden)
     ELSE \E found \in BOOLEAN :
            Respond(IF found THEN StatusOK ELSE StatusInternalServerError)
  /\ UNCHANGED hctx
  /\ UNCHANGED <<samplerVars, rngVars, req>>

\* the handlers of the other routes (ListTricks, GetTrickSimple,
\* GetTrickFullDetails, ListCategories, the health function), by the statuses
\* they write
HandleOther ==
  /\ hpc = "chain"
  /\ hchain[hpos] \in {"ListTricks", "GetTrickSimple", "GetTrickFullDetails",
                       "ListCategories", "health"}
  /\ hreached' = TRUE
  /\ \E status \in IF hchain[hpos] = "health" THEN {StatusOK}
                   ELSE IF hchain[hpos] \in {"ListTricks", "ListCategories"}
                     THEN {StatusOK, StatusInternalServerError}
                   ELSE {StatusOK, StatusBadRequest, StatusNotFound,
                         StatusInternalServerError} :
       Respond(status)
  /\ UNCHANGED hctx
  /\ UNCHANGED <<samplerVars, rngVars, req>>

NextHttp ==
  \/ HttpArrive
  \/ InternalAPIKey
  \/ ExtractUserContext
  \/ HandleGenerateCombo
  \/ HandleGenerateSimpleCombo
  \/ WeightedDraw
  \/ WeightedReturn
  \/ ComboRespond
  \/ HandleGetUserCombos
  \/ HandleOther

SpecHttp == Init /\ [][NextHttp]_vars

\* ---------------------------------------------------------------- claims
ServiceOps == {"GenerateComboWithFilters", "GenerateSimpleCombo"}

IDsOf(tricks) == {tricks[k].ID : k \in 1..Len(tricks)}
RangeOf(tricks) == {tricks[k] : k \in 1..Len(tricks)}
DistinctIDs(tricks) ==
  \A j, k \in 1..Len(tricks) : j # k => tricks[j].ID # tricks[k].ID
MaxOf(a, b) == IF a > b THEN a ELSE b

\* a service operation has returned a combo
Returned == pc = "done" /\ op \in ServiceOps /\ err = NoErr

\* a draw of selectTricksWeighted is about to be taken
WeightedPending == pc = "weighted" /\ i < count /\ Len(available) > 0

\* a pick of selectTricksWithFlow is about to be taken, and the list it is
\* taken from
FlowLoopPending == pc = "flow" /\ i < count /\ Len(available) > 0
FlowPending == pc = "flowFirst" \/ FlowLoopPending
FlowList ==
  IF pc = "flowFirst" THEN available
  ELSE FlowDrawList(available, selected[i].LandingStanceID)

\* C1: for a pool with unique ids and 1 <= count <= |pool|, whatever the
\* draws, the service returns exactly count candidates, pairwise distinct by
\* id, each a member of the pool; with count = |pool| the output is a
\* permutation of the whole pool.
C1_SelectReturnsCountDistinctFromPool ==
  (Returned /\ count >= 1 /\ Len(candidates) >= count) =>
    /\ Len(selected) = count
    /\ DistinctIDs(selected)
    /\ RangeOf(selected) \subseteq RangeOf(candidates)
    /\ Len(combo) = 1
    /\ Len(combo[1].Tricks) = count
    /\ \A k \in 1..count : combo[1].Tricks[k].ID = selected[k].ID
    /\ (count = Len(candidates) => IDsOf(selected) = IDsOf(candidates))

\* the whole pool of three, weights 2, 1, 1, returned in another order
C1_Witness ==
  /\ Returned
  /\ count = 3
  /\ Len(candidates) = 3
  /\ candidates[1].Weight = 2 /\ candidates[2].Weight = 1 /\ candidates[3].Weight = 1
  /\ selected[1] = candidates[3]
  /\ IDsOf(selected) = IDsOf(candidates)

\* C2: for every count < 1 and any rows in the repository, the service fails
\* with ErrInvalidComboSize and returns no combo.
C2_InvalidSizeFails ==
  (pc = "done" /\ op \in ServiceOps /\ count < 1) =>
    /\ err = ErrInvalidComboSize
    /\ combo = <<>>
    /\ selected = <<>>

\* count = 0 against a full repository
C2_Witness ==
  /\ pc = "done"
  /\ op \in ServiceOps
  /\ count = 0
  /\ Len(table) = MaxPool
  /\ err = ErrInvalidComboSize

\* C3: for every count >= 1 and every fetched pool smaller than count, the
\* service fails with ErrInsufficientTricks, and the error carries the
\* requested count and the pool size.
C3_InsufficientFails ==
  (pc = "done" /\ op \in ServiceOps /\ count >= 1 /\ err # ErrFetch
     /\ Len(table) < count) =>
    /\ err.kind = "ErrInsufficientTricks"
    /\ err.need = count
    /\ err.have = Len(table)
    /\ combo = <<>>

\* a pool of two, more than three requested
C3_Witness ==
  /\ pc = "done"
  /\ op \in ServiceOps
  /\ Len(table) = 2
  /\ count > 3
  /\ err = ErrInsufficientTricks(count, 2)

\* C4: the sampler performs no partial selection: a service call either fails,
\* having selected nothing, or returns a sequence of exactly count tricks; the
\* sampler is never entered with more requested than the pool holds.
C4_NoShortSequence ==
  /\ (pc = "done" /\ op \in ServiceOps) =>
       \/ err # NoErr /\ combo = <<>> /\ selected = <<>> /\ picks = <<>>
       \/ /\ err = NoErr
          /\ Len(combo) = 1
          /\ Len(selected) = count
          /\ Len(combo[1].Tricks) = count
  /\ pc = "weighted" => (1 <= count /\ count <= Len(candidates))

\* a pool of two and three requested: a failure with nothing selected
C4_Witness ==
  /\ pc = "done"
  /\ op \in ServiceOps
  /\ Len(table) = 2
  /\ count = 3
  /\ err.kind = "ErrInsufficientTricks"
  /\ selected = <<>>
  /\ combo = <<>>

\* the targets of [0, totalWeight) for which the search loop of
\* selectTricksWeighted stops at position k
WeightedTargetsOf(tricks, k) ==
  {t \in Int63n(TotalWeight(tricks)) : SelectIdx(tricks, t) = k}

\* the targets of [0, totalWeight) for which pickWeightedRandom returns the
\* trick at position k
PickTargetsOf(tricks, k) ==
  {t \in Int63n(TotalWeight(tricks)) : pickWeightedRandom(tricks, t) = tricks[k]}

\* C5: in every weighted draw over a non-empty list, each candidate of the
\* list is selected by exactly max(weight, 1) of the totalWeight targets of
\* [0, totalWeight), in selectTricksWeighted and in pickWeightedRandom.
C5_TargetsProportionalToWeight ==
  /\ WeightedPending =>
       \A k \in 1..Len(available) :
         Cardinality(WeightedTargetsOf(available, k)) =
           MaxOf(available[k].Weight, 1)
  /\ FlowPending =>
       \A k \in 1..Len(FlowList) :
         Cardinality(PickTargetsOf(FlowList, k)) = MaxOf(FlowList[k].Weight, 1)

\* the second draw of a request, over a weight 2 and a weight 0
C5_Witness ==
  /\ WeightedPending
  /\ i = 1
  /\ Len(available) = 2
  /\ available[1].Weight = 0
  /\ available[2].Weight = 2

\* the targets the pending draw can use that select the trick with this id
WeightedTargetsFor(id) ==
  {t \in Int63n(TotalWeight(available)) :
     available[SelectIdx(available, t)].ID = id}
FlowTargetsFor(id) ==
  {t \in PickTargets(FlowList) : pickWeightedRandom(FlowList, t).ID = id}

\* C6 as stated: a candidate of weight 0 or less is treated as weight 1, and
\* at every draw in which it is still in the remaining set some target selects
\* it, in selectTricksWeighted and in selectTricksWithFlow.
C6_Original ==
  /\ WeightedPending =>
       \A k \in 1..Len(available) :
         available[k].Weight < 1 => WeightedTargetsFor(available[k].ID) # {}
  /\ FlowPending =>
       \A k \in 1..Len(available) :
         available[k].Weight < 1 => FlowTargetsFor(available[k].ID) # {}

\* C6 amended: a candidate of weight 0 or less is treated as weight 1: at
\* every draw of selectTricksWeighted in which it is in the remaining set,
\* and at every pick of selectTricksWithFlow in which it is in the list the
\* pick is taken from, exactly one target of [0, totalWeight) selects it, and
\* a target the draw can use selects it.
C6_ZeroWeightSelectable ==
  /\ WeightedPending =>
       \A k \in 1..Len(available) :
         available[k].Weight < 1 =>
           /\ Cardinality(WeightedTargetsOf(available, k)) = 1
           /\ WeightedTargetsFor(available[k].ID) # {}
  /\ FlowPending =>
       \A k \in 1..Len(FlowList) :
         FlowList[k].Weight < 1 =>
           /\ Cardinality(PickTargetsOf(FlowList, k)) = 1
           /\ FlowTargetsFor(FlowList[k].ID) # {}

\* a pick of selectTricksWithFlow from two or more tricks, one of weight 0
C6_Witness ==
  /\ FlowLoopPending
  /\ Len(FlowList) >= 2
  /\ \E k \in 1..Len(FlowList) : FlowList[k].Weight = 0
  /\ \E k \in 1..Len(FlowList) : FlowList[k].Weight > 1

\* C7: the output of select is in draw order: its i-th element is the
\* candidate the i-th draw chose, wherever the candidates stood in the pool.
C7_OutputInDrawOrder ==
  op \in ServiceOps =>
    /\ Len(selected) = Len(picks)
    /\ \A k \in 1..Len(selected) : selected[k].ID = picks[k]
    /\ Returned =>
         /\ Len(combo[1].Tricks) = Len(picks)
         /\ \A k \in 1..Len(picks) : combo[1].Tricks[k].ID = picks[k]

\* three draws that chose the pool's last row, then its first, then its second
C7_Witness ==
  /\ Returned
  /\ Len(candidates) = 3
  /\ picks = <<candidates[3].ID, candidates[1].ID, candidates[2].ID>>
  /\ selected = <<candidates[3], candidates[1], candidates[2]>>

\* the remaining candidates whose takeoff stance equals the previous pick's
\* landing stance
Matching ==
  {k \in 1..Len(available) :
     available[k].TakeoffStanceID = selected[i].LandingStanceID}

\* C8 as stated: whenever exactly one remaining candidate's takeoffStance
\* matches the previous pick's landingStance, the next pick of
\* selectTricksWithFlow is that candidate for every draw.
C8_Original ==
  (FlowLoopPending /\ selected[i].LandingStanceID # Nil
     /\ Cardinality(Matching) = 1) =>
    \A t \in PickTargets(FlowList) :
      \E k \in Matching : pickWeightedRandom(FlowList, t) = available[k]

\* C8 amended: whenever the restricted set (the remaining candidates whose
\* takeoffStance is unset or equals the previous pick's landingStance) has
\* exactly one member, the next pick of selectTricksWithFlow is that member
\* for every draw.
C8_SingleCompatiblePicked ==
  [][(FlowLoopPending
        /\ Len(filterCompatibleTricks(available, selected[i].LandingStanceID)) = 1)
       => /\ pc' = "flow"
          /\ selected' =
               Append(selected,
                      filterCompatibleTricks(available,
                                             selected[i].LandingStanceID)[1])]_vars

\* the candidates left before the last pick, and those of them compatible
\* with the pick before it
LeftBeforeLastPick ==
  {c \in RangeOf(candidates) : c.ID \notin IDsOf(SubSeq(selected, 1, i - 1))}
CompatibleBeforeLastPick ==
  {c \in LeftBeforeLastPick : Compatible(c, selected[i - 1].LandingStanceID)}

\* the last pick was the only compatible one of those left, and a heavier
\* one of them was not compatible
C8_Witness ==
  /\ pc = "flow"
  /\ op = "selectTricksWithFlow"
  /\ i >= 2
  /\ selected[i - 1].LandingStanceID # Nil
  /\ Cardinality(LeftBeforeLastPick) >= 2
  /\ CompatibleBeforeLastPick = {selected[i]}
  /\ \E c \in LeftBeforeLastPick : c.Weight > selected[i].Weight

\* C9: for |pool| >= count >= 1, selectTricksWithFlow returns exactly count
\* distinct candidates of the pool, also when at some step no remaining
\* candidate is compatible with the previous pick: it then draws from the
\* whole remaining pool.
C9_FlowFullLength ==
  /\ (pc = "done" /\ op = "selectTricksWithFlow" /\ count >= 1
        /\ Len(candidates) >= count) =>
       /\ err = NoErr
       /\ Len(selected) = count
       /\ DistinctIDs(selected)
       /\ RangeOf(selected) \subseteq RangeOf(candidates)
  /\ (op = "selectTricksWithFlow" /\ pc = "flow" /\ fellBack) =>
       ~Compatible(selected[i], selected[i - 1].LandingStanceID)
         \/ \E k \in 2..(i - 1) :
              ~Compatible(selected[k], selected[k - 1].LandingStanceID)

\* a full-length result of three picks, one of them by fallback
C9_Witness ==
  /\ pc = "done"
  /\ op = "selectTricksWithFlow"
  /\ fellBack
  /\ count = 3
  /\ Len(selected) = 3
  /\ Len(candidates) = 3

\* C10: the generator used by concurrent requests is not a single
\* unsynchronized shared generator: two requests of the same ComboService are
\* never inside the generator at the same time.
C10_NoUnsynchronizedSharedGenerator ==
  \A p, q \in Requests :
    p # q => ~(rpc[p] = "inRng" /\ rpc[q] = "inRng")

\* C11: no state is held across combo-generation requests: when a request
\* has been served, every structure reachable from the ComboService (here the
\* generator state; the repository handle is never assigned) is as
\* NewComboService left it, so the next request starts from the same state.
C11_ServiceStateUnchangedByRequest ==
  (pc = "done" /\ op \in ServiceOps) => rng = 0

\* C13: the sampler never mutates its input: while selectTricksWeighted or
\* selectTricksWithFlow runs, and after it has returned, the caller's
\* candidate slice holds the elements it was called with, in the same order;
\* only the working copy shrinks.
C13_InputNotMutated ==
  (pc \in {"weighted", "flowFirst", "flow"} \/ Len(selected) > 0) =>
    /\ candidates = table
    /\ Len(available) + Len(selected) = Len(candidates)

\* three draws done, the first of them swap-removed the first element of the
\* working copy, and the caller's slice still starts with that element
C13_Witness ==
  /\ Returned
  /\ count = 3
  /\ Len(candidates) = 3
  /\ picks[1] = candidates[1].ID
  /\ available = <<>>

\* r is the response whose k-th entry is the (id, name) pair of tricks[k]
IsProjectionOf(r, tricks) ==
  /\ DOMAIN r = {"Tricks"}
  /\ Len(r.Tricks) = Len(tricks)
  /\ \A k \in 1..Len(tricks) :
       r.Tricks[k] = [ID |-> tricks[k].ID, Name |-> tricks[k].Name]

\* C14: buildComboResponse is total and order-preserving: for every sequence
\* of tricks, the empty one included, it returns a list of the same length
\* whose k-th entry is the (id, name) projection of the k-th trick; the
\* response a service operation returns is that list for the selected tricks.
C14_ResponseIsProjection ==
  /\ Returned =>
       /\ Len(combo) = 1
       /\ IsProjectionOf(combo[1], selected)
  /\ \A tricks \in {table, candidates, available, selected} :
       IsProjectionOf(buildComboResponse(tricks), tricks)

\* a response of three entries has been returned, and the working copy is
\* the empty sequence
C14_Witness ==
  /\ Returned
  /\ Len(combo[1].Tricks) = 3
  /\ combo[1].Tricks[1].ID = selected[1].ID
  /\ combo[1].Tricks[3].Name = selected[3].Name
  /\ combo[1].Tricks[1] # combo[1].Tricks[3]
  /\ available = <<>>

\* a combo handler has answered the request
ComboAnswered == hpc = "done" /\ hreq.route \in ComboRoutes /\ hreached

\* C15: in both combo handlers, a request that does not bind is answered 400
\* without a service call, ErrInsufficientTricks is answered 422,
\* ErrInvalidComboSize 400, every other service error 500, and 200 is
\* answered only when the service returned a combo and no error.
C15_ComboStatusMapping ==
  ComboAnswered =>
    /\ (hreq.otherParamsBad \/ ~hreq.size.present \/ ~hreq.size.numeric) =>
         hstatus = 400 /\ op = "none"
    /\ op = "none" => hstatus = 400
    /\ op # "none" =>
         /\ op = hchain[hpos]
         /\ err.kind = "ErrInsufficientTricks" => hstatus = 422
         /\ err.kind = "ErrInvalidComboSize" => hstatus = 400
         /\ err.kind \notin {"nil", "ErrInsufficientTricks",
                             "ErrInvalidComboSize"} => hstatus = 500
         /\ err.kind = "nil" => hstatus = 200
    /\ hstatus = 200 =>
         /\ err = NoErr
         /\ Len(combo) = 1
         /\ Len(combo[1].Tricks) = count

\* the simple handler answered 422: the service found fewer tricks than asked
C15_Witness ==
  /\ ComboAnswered
  /\ hreq.route = "/api/v1/combos/generate/simple"
  /\ hstatus = 422
  /\ err = ErrInsufficientTricks(3, 2)

\* C16: the simple combo endpoint validates size as required and between 1
\* and 20: a request whose size is an integer in 1..20 reaches the service,
\* and a request whose size is missing, not a number or outside 1..20 is
\* answered 400 without a service call.
C16_SimpleSizeOneToTwenty ==
  (hreq.route = "/api/v1/combos/generate/simple" /\ hreached) =>
    IF /\ hreq.size.present
       /\ hreq.size.numeric
       /\ hreq.size.value \in DocMinSize..DocMaxSize
    THEN op = "GenerateSimpleCombo" /\ count = hreq.size.value
    ELSE op = "none" /\ hstatus = 400

\* C20: every route of the /api/v1 group requires the internal API key: a
\* request to such a route whose internal-api-key header is missing or is not
\* the configured key never enters the route's handler and is answered 401.
C20_V1RoutesRequireKey ==
  (hpc # "idle" /\ hreq.route \in V1Routes /\ hreq.key # ConfiguredKey) =>
    /\ ~hreached
    /\ hpc = "done" => hstatus = 401

\* GenerateComboWithFilters has queried the repository for the request req
Queried == op = "GenerateComboWithFilters" /\ pc # "idle"

\* C17: category exclusion: for a request with a non-empty list of excluded
\* category ids, no trick whose category (flip_id) is in the list is in the
\* candidate pool, and so none is in the combo.
C17_ExcludedCategoriesNotInPool ==
  (Queried /\ Len(req.ExcludeCategoryIDs) > 0) =>
    \A t \in RangeOf(candidates) \cup RangeOf(selected) :
      t.FlipID \notin ElementsOf(req.ExcludeCategoryIDs)

\* C18: trick exclusion: no trick whose id is listed in ExcludeTrickIDs is in
\* the candidate pool, among the tricks selected, or in the combo returned.
C18_ExcludedTricksNotInCombo ==
  Queried =>
    \A id \in ElementsOf(req.ExcludeTrickIDs) :
      /\ id \notin IDsOf(candidates)
      /\ id \notin IDsOf(selected)
      /\ \A r \in ElementsOf(combo) : id \notin IDsOf(r.Tricks)

\* a combo was returned for a request that excludes two of the three tricks
\* of the table
C18_Witness ==
  /\ Returned
  /\ op = "GenerateComboWithFilters"
  /\ Len(table) = 3
  /\ Len(req.ExcludeTrickIDs) = 2
  /\ ElementsOf(req.ExcludeTrickIDs) \subseteq IDsOf(table)
  /\ Len(combo[1].Tricks) = 1

\* C19: trick inclusion: when the request lists trick ids to include, every
\* combo generated contains each listed trick that the table holds, provided
\* the list is no longer than the combo.
C19_ListedTricksIncluded ==
  (Returned /\ Len(req.TrickIDs) > 0 /\ Len(req.TrickIDs) <= count) =>
    \A id \in ElementsOf(req.TrickIDs) \cap IDsOf(table) :
      id \in IDsOf(selected)

\* GetUserCombos has answered a request for the combos of a well-formed user id
UserCombosAnswered ==
  /\ hpc = "done"
  /\ hreq.route \in UserRoutes
  /\ hreached
  /\ ParsesAsUUID(hreq.userId)

\* the request is made on behalf of the user whose combos it asks for, or of
\* an admin
OwnOrAdmin ==
  \/ hreq.userHeader # "" /\ UUIDOf(hreq.userHeader) = UUIDOf(hreq.userId)
  \/ hreq.roleHeader = "admin"

\* C21: a user can only view their own saved combos unless admin:
\* GetUserCombos answers 200 with the combos of user U only when the request
\* is made on behalf of U or of an admin; every other request for U's combos
\* is answered 403 without a call of the user service.
C21_OnlyOwnCombosUnlessAdmin ==
  UserCombosAnswered =>
    /\ hstatus = 200 => OwnOrAdmin
    /\ ~OwnOrAdmin => hstatus = 403

\* the sum of max(weight, 1) over the first k positions of list
RECURSIVE SumOfFloors(_, _)
SumOfFloors(list, k) ==
  IF k = 0 THEN 0 ELSE SumOfFloors(list, k - 1) + MaxOf(list[k].Weight, 1)

\* k is the least position of list whose prefix sum of effective weights is
\* strictly greater than target
IsLeastCrossing(list, target, k) ==
  /\ k \in 1..Len(list)
  /\ SumOfFloors(list, k) > target
  /\ \A j \in 1..(k - 1) : SumOfFloors(list, j) <= target

\* C22: in each weighted draw, for every remaining list and every target in
\* [0, totalWeight), the candidate selected is the one at the least position,
\* in the list's current order, whose prefix sum of effective weights is
\* strictly greater than target; such a position always exists, so neither
\* the default index 0 of selectTricksWeighted nor the last-element fallback
\* of pickWeightedRandom decides a pick.
C22_LeastCrossingIndexSelected ==
  /\ WeightedPending =>
       \A target \in 0..(SumOfFloors(available, Len(available)) - 1) :
         /\ Crossed(available, target) # {}
         /\ IsLeastCrossing(available, target, SelectIdx(available, target))
  /\ FlowPending =>
       /\ Len(FlowList) >= 1
       /\ \A target \in 0..(SumOfFloors(FlowList, Len(FlowList)) - 1) :
            /\ Crossed(FlowList, target) # {}
            /\ \E k \in 1..Len(FlowList) :
                 /\ IsLeastCrossing(FlowList, target, k)
                 /\ pickWeightedRandom(FlowList, target) = FlowList[k]

\* the first draw of a request over three tricks took the middle one, which
\* is neither at index 0 nor the last element
C22_Witness ==
  /\ pc = "weighted"
  /\ i = 1
  /\ Len(candidates) = 3
  /\ selected = <<candidates[2]>>
  /\ candidates[1].Weight = 2
  /\ candidates[2].Weight = 0

\* the number of positions of list that hold t
CountIn(list, t) == Cardinality({k \in 1..Len(list) : list[k] = t})

\* C23: removal does not bias later weight sums: a draw of
\* selectTricksWeighted leaves as working set the previous working set minus
\* the one candidate selected, every other candidate kept once and unchanged,
\* so the next totalWeight is the previous totalWeight minus the selected
\* candidate's effective weight.
C23_RemovalKeepsOtherWeights ==
  [][(pc = "weighted" /\ pc' = "weighted" /\ i' = i + 1) =>
       LET picked == selected'[Len(selected')] IN
       /\ Len(selected') = Len(selected) + 1
       /\ Len(available') = Len(available) - 1
       /\ \A t \in RangeOf(available) :
            CountIn(available', t) =
              CountIn(available, t) - (IF t = picked THEN 1 ELSE 0)
       /\ SumOfFloors(available', Len(available')) =
            SumOfFloors(available, Len(available)) - MaxOf(picked.Weight, 1)]_vars

\* the first draw over three tricks selected the first one, and the swap
\* moved the last trick into its place
C23_Witness ==
  /\ pc = "weighted"
  /\ i = 1
  /\ Len(candidates) = 3
  /\ selected = <<candidates[1]>>
  /\ available = <<candidates[3], candidates[2]>>
  /\ candidates[1].Weight = 2

\* the list with every stance field unset
StripStances(list) ==
  [k \in 1..Len(list) |->
     [list[k] EXCEPT !.TakeoffStanceID = Nil, !.LandingStanceID = Nil]]

\* C24: the first pick of selectTricksWithFlow is the weighted draw of
\* selectTricksWeighted's first iteration over the full pool: for every
\* non-empty pool and every target of [0, totalWeight) both choose the same
\* candidate, the stances of the pool do not change which position is chosen,
\* and the first trick selected is one that such a draw over the pool
\* yields.
C24_FirstPickIsWeightedDraw ==
  /\ pc = "flowFirst" =>
       /\ available = candidates
       /\ \A target \in Int63n(TotalWeight(available)) :
            /\ pickWeightedRandom(available, target) =
                 available[SelectIdx(available, target)]
            /\ pickWeightedRandom(StripStances(available), target).ID =
                 pickWeightedRandom(available, target).ID
  /\ (pc = "flow" /\ i = 1) =>
       \E target \in Int63n(TotalWeight(candidates)) :
         selected[1] = candidates[SelectIdx(candidates, target)]

\* the first pick over three tricks with takeoff stances took the second one
C24_Witness ==
  /\ pc = "flow"
  /\ i = 1
  /\ Len(candidates) = 3
  /\ selected = <<candidates[2]>>
  /\ candidates[1].TakeoffStanceID = 1
  /\ candidates[2].TakeoffStanceID = 2

\* the candidates still in the working set before the k-th pick, and those of
\* them the k-th pick is restricted to: takeoff stance unset or equal to the
\* landing stance of pick k - 1, all of them when that landing stance is unset
RemainingBefore(k) ==
  RangeOf(candidates) \ {selected[j] : j \in 1..(k - 1)}
RestrictedBefore(k) ==
  {t \in RemainingBefore(k) :
     \/ selected[k - 1].LandingStanceID = Nil
     \/ t.TakeoffStanceID = Nil
     \/ t.TakeoffStanceID = selected[k - 1].LandingStanceID}

\* C25: for every pick of selectTricksWithFlow after the first, the
\* restricted set is the remaining candidates whose takeoff stance is unset or
\* equals the previous pick's landing stance (the whole remaining pool when
\* that landing stance is unset); when it is non-empty the pick is a member of
\* it, and only when it is empty is the pick taken from the full remaining
\* pool.
C25_PickFromRestrictedSet ==
  op = "selectTricksWithFlow" =>
    /\ FlowLoopPending =>
         LET restricted ==
               filterCompatibleTricks(available, selected[i].LandingStanceID)
         IN /\ RangeOf(available) = RemainingBefore(i + 1)
            /\ RangeOf(restricted) = RestrictedBefore(i + 1)
            /\ Len(restricted) = Cardinality(RestrictedBefore(i + 1))
            /\ \A target \in PickTargets(FlowList) :
                 pickWeightedRandom(FlowList, target) \in
                   (IF RestrictedBefore(i + 1) # {}
                    THEN RestrictedBefore(i + 1) ELSE RemainingBefore(i + 1))
    /\ \A k \in 2..Len(selected) :
         selected[k] \in (IF RestrictedBefore(k) # {}
                          THEN RestrictedBefore(k) ELSE RemainingBefore(k))

\* three picks: the second from the restricted set while an incompatible
\* candidate remained, the third by fallback
C25_Witness ==
  /\ op = "selectTricksWithFlow"
  /\ Len(selected) = 3
  /\ selected[1].LandingStanceID = 1
  /\ selected[2].TakeoffStanceID = 1
  /\ selected[3].TakeoffStanceID = 2
  /\ RestrictedBefore(2) = {selected[2]}
  /\ RestrictedBefore(3) = {}

\* C26: selectTricksWithFlow has the preconditions of selectTricksWeighted's
\* callers: for count < 1 it fails with ErrInvalidComboSize, and for a pool
\* of fewer than count candidates it fails with ErrInsufficientTricks, for
\* any pool.
C26_FlowPreconditions ==
  (op = "selectTricksWithFlow" /\ pc = "done") =>
    /\ count < 1 => err = ErrInvalidComboSize
    /\ (count >= 1 /\ Len(candidates) < count) =>
         err = ErrInsufficientTricks(count, Len(candidates))

\* a sampler has made its working copy and i draws are completed
SamplerStarted ==
  pc \in {"weighted", "flowFirst", "flow"} \/ (pc = "done" /\ Len(selected) > 0)

\* C27: partition invariant of both samplers: after k completed draws on a
\* pool with unique ids, the selected sequence has length k, the working set
\* has |pool| - k elements, the two are disjoint by id, and together they hold
\* every candidate of the input pool exactly once.
C27_SelectedAndWorkingSetPartitionPool ==
  (SamplerStarted /\ DistinctIDs(candidates)) =>
    /\ Len(selected) = i
    /\ Len(available) = Len(candidates) - i
    /\ IDsOf(selected) \cap IDsOf(available) = {}
    /\ RangeOf(selected) \cup RangeOf(available) = RangeOf(candidates)
    /\ \A t \in RangeOf(candidates) :
         CountIn(selected, t) + CountIn(available, t) = 1

\* two picks of selectTricksWithFlow out of three tricks, the first of them
\* the first trick of the pool, the third trick left in the working set
C27_Witness ==
  /\ op = "selectTricksWithFlow"
  /\ pc = "flow"
  /\ i = 2
  /\ Len(candidates) = 3
  /\ selected = <<candidates[1], candidates[2]>>
  /\ available = <<candidates[3]>>

\* C28: the random draw is always well-defined: in every step of
\* selectTricksWeighted and selectTricksWithFlow with count >= 1 and a
\* non-empty pool, the list drawn from is non-empty and its totalWeight is at
\* least its length (so at least 1), whatever the weights, zero and negative
\* ones included; Int63n is never called with a non-positive bound, the
\* position selected is inside the list, and no run panics.
C28_DrawWellDefined ==
  (count >= 1 /\ Len(candidates) >= 1) =>
    /\ WeightedPending =>
         /\ TotalWeight(available) >= Len(available)
         /\ Len(available) >= 1
         /\ \A target \in Int63n(TotalWeight(available)) :
              SelectIdx(available, target) \in 1..Len(available)
    /\ FlowPending =>
         /\ TotalWeight(FlowList) >= Len(FlowList)
         /\ Len(FlowList) >= 1
         /\ PickTargets(FlowList) # {}
         /\ \A target \in PickTargets(FlowList) :
              pickWeightedRandom(FlowList, target) \in RangeOf(FlowList)
         /\ pc = "flow" => i \in 1..Len(selected)
    /\ err # Panic

\* the second draw of a request is pending over a weight -1 and a weight 0
C28_Witness ==
  /\ WeightedPending
  /\ i = 1
  /\ Len(available) = 2
  /\ available[1].Weight = -1
  /\ available[2].Weight = 0
  /\ TotalWeight(available) = 2

\* no trick of the list has a takeoff or a landing stance
NoStances(list) ==
  \A k \in 1..Len(list) :
    list[k].TakeoffStanceID = Nil /\ list[k].LandingStanceID = Nil

\* the sequences of n distinct elements of list
Arrangements(list, n) ==
  {s \in [1..n -> RangeOf(list)] : \A a, b \in 1..n : a # b => s[a] # s[b]}

\* selectTricksWithFlow was called on a pool without stances, with
\* 1 <= count <= |pool|
FlowWithoutStances ==
  /\ op = "selectTricksWithFlow"
  /\ NoStances(candidates)
  /\ DistinctIDs(candidates)
  /\ count >= 1
  /\ count <= Len(candidates)

\* C29: when every candidate's takeoff and landing stance are unset,
\* selectTricksWithFlow and selectTricksWeighted are interchangeable: for
\* every pool with unique ids and 1 <= count <= |pool|, the set of sequences
\* selectTricksWithFlow can return over all draws equals the set
\* selectTricksWeighted can return (every sequence of count distinct
\* candidates), and what a run of selectTricksWithFlow returns is in that
\* set.
C29_FlowEqualsSelectWithoutStances ==
  /\ (FlowWithoutStances /\ pc = "flowFirst") =>
       /\ FlowOutputs(candidates, count) = SelectOutputs(candidates, count)
       /\ SelectOutputs(candidates, count) = Arrangements(candidates, count)
  /\ (FlowWithoutStances /\ pc = "done") =>
       selected \in Arrangements(candidates, count)

\* selectTricksWithFlow returned three tricks without stances in an order
\* that is not the pool's
C29_Witness ==
  /\ FlowWithoutStances
  /\ pc = "done"
  /\ count = 3
  /\ selected = <<candidates[3], candidates[1], candidates[2]>>
  /\ candidates[1].Weight = 2
  /\ candidates[3].Weight = -1

\* C30: when the candidate fetch fails, GenerateComboWithFilters and
\* GenerateSimpleCombo return an error that is neither ErrInvalidComboSize
\* nor ErrInsufficientTricks, do no sampling and return no combo, and the
\* handler's answer for that error is 500; the size check comes before the
\* fetch, so a call with size < 1 returns ErrInvalidComboSize whether or not
\* the repository could be read, and holds no rows.
C30_FetchFailureIsServerError ==
  /\ (op \in ServiceOps /\ err = ErrFetch) =>
       /\ pc = "done"
       /\ count >= 1
       /\ err # ErrInvalidComboSize
       /\ err.kind # "ErrInsufficientTricks"
       /\ combo = <<>>
       /\ candidates = <<>> /\ available = <<>> /\ selected = <<>>
       /\ picks = <<>> /\ i = 0 /\ rng = 0
       /\ ComboStatus(err) = 500
       /\ hpc = "done" => hstatus = 500
  /\ (op \in ServiceOps /\ count < 1) =>
       /\ pc = "done"
       /\ err = ErrInvalidComboSize
       /\ candidates = <<>>

\* GenerateSimpleCombo was called with size 2 while the repository holds three
\* tricks, and the fetch failed
C30_Witness ==
  /\ op = "GenerateSimpleCombo"
  /\ pc = "done"
  /\ err = ErrFetch
  /\ count = 2
  /\ Len(table) = 3
  /\ combo = <<>>

====
